---- MODULE Spec2Model ----
(***************************************************************************)
(* Model of the power state machine of the Quectel M95 driver (m95.py):    *)
(* init, shutdown(forced) and startup(), one action per statement, with    *)
(* the program counter named after the source line it stands at.  The      *)
(* status pin is hardware: it may change level at any moment.              *)
(***************************************************************************)
EXTENDS Integers, Sequences, FiniteSets, TLC

VARIABLES cfg, level, mode, driver_init, default_net,
          pc, call, forced, i, timeout, result,
          coop, loop, lsamples, lsleeps, cphase, lastSample, allNonTarget,
          wroteSince, writes, hold, lastHold, entry, changed, handshakes,
          esample, slept,
          tpc, ti, ttimeout, tforced, lock

cfgVars == <<cfg>>
hwVars == <<level, mode>>
engVars == <<driver_init, default_net>>
ctlVars == <<pc, call, forced, i, timeout, result>>
obsVars == <<coop, loop, lsamples, lsleeps, cphase, lastSample, allNonTarget,
             wroteSince, writes, hold, lastHold, entry, changed, handshakes,
             esample, slept>>
concVars == <<tpc, ti, ttimeout, tforced, lock>>
vars == <<cfg, level, mode, driver_init, default_net,
          pc, call, forced, i, timeout, result,
          coop, loop, lsamples, lsleeps, cphase, lastSample, allNonTarget,
          wroteSince, writes, hold, lastHold, entry, changed, handshakes,
          esample, slept, tpc, ti, ttimeout, tforced, lock>>

(* ---- levels, pins and the program's timing constants ---- *)
HIGH == 1
LOW == 0
Levels == {LOW, HIGH}
Pins == {"power", "kill", "status"}
OutPins == {"power", "kill"}

\* a faulty inactive level: HIGH whatever the active level is
Xor_hardcoded(a, b) == a

\* a ^ b on one-bit levels
Xor(a, b) == (a + b) % 2

CoopTimeout == 125
KillTimeout == 15
PowerOffTimeout == 125
StartupTimeout == 20
PollMs == 100
SettleMs == 500
PreMs == 500
KillHoldMs == 100
PowerOffHoldMs == 750
PowerOnHoldMs == 1100

\* cap of the observer's clocks (active-hold time of a pin, time slept since
\* the last status sample)
HoldCap == 2000

Min(a, b) == IF a < b THEN a ELSE b

\* _kill_pin=None ... _status_on=None
NoConfig == [kill_pin |-> "None", kill_on |-> "None", power_pin |-> "None",
             power_on |-> "None", status_pin |-> "None", status_on |-> "None"]

Configured == cfg.status_pin # "None"

\* the configured active level of an output pin
OnLevel(pin) == IF pin = "kill" THEN cfg.kill_on ELSE cfg.power_on

\* gpio.get(_status_pin)==_status_on
StatusIsOn == level[cfg.status_pin] = cfg.status_on

Logical(b) == IF b THEN "ON" ELSE "OFF"

\* the level the running call wants the status pin to reach
Target(c) == IF c = "startup" THEN "ON" ELSE "OFF"

\* the two control threads of the concurrent scenario: S runs startup(),
\* D runs shutdown(forced)
Threads == {"S", "D"}

NoWrites == [p \in OutPins |-> <<>>]
NoHold == [p \in OutPins |-> 0]

Init ==
  /\ cfg = NoConfig
  /\ level \in [Pins -> Levels]
  /\ mode = [p \in Pins |-> "unset"]
  /\ driver_init = FALSE
  /\ default_net = [gsm |-> "none", ssl |-> "none", sock0 |-> "none"]
  /\ pc = "idle"
  /\ call = "none"
  /\ forced = FALSE
  /\ i = -1
  /\ timeout = 0
  /\ result = "none"
  /\ coop = "none"
  /\ loop = "none"
  /\ lsamples = 0
  /\ lsleeps = 0
  /\ cphase = "none"
  /\ lastSample = "none"
  /\ allNonTarget = TRUE
  /\ wroteSince = FALSE
  /\ writes = NoWrites
  /\ hold = NoHold
  /\ lastHold = NoHold
  /\ entry = "none"
  /\ changed = FALSE
  /\ handshakes = 0
  /\ esample = "none"
  /\ slept = 0
  /\ tpc = [t \in Threads |-> "idle"]
  /\ ti = [t \in Threads |-> -1]
  /\ ttimeout = [t \in Threads |-> 0]
  /\ tforced = [t \in Threads |-> FALSE]
  /\ lock = "off"


(* ---- the primitives the procedures are written in ---- *)

\* gpio.set(pin, lv): drives the pin; the observer notes the logical write
\* ("A" active, "I" inactive) and closes the hold window on a release.
GpioSet(pin, lv) ==
  /\ level' = [level EXCEPT ![pin] = lv]
  /\ writes' = [writes EXCEPT ![pin] =
                  Append(@, IF lv = OnLevel(pin) THEN "A" ELSE "I")]
  /\ hold' = [hold EXCEPT ![pin] =
                  IF lv = OnLevel(pin) /\ level[pin] # OnLevel(pin) THEN 0 ELSE @]
  /\ lastHold' = [lastHold EXCEPT ![pin] =
                  IF lv # OnLevel(pin) /\ level[pin] = OnLevel(pin)
                  THEN hold[pin] ELSE @]
  /\ wroteSince' = TRUE
  /\ UNCHANGED <<mode, coop, loop, lsamples, lsleeps, cphase, lastSample,
                 allNonTarget, entry, changed, handshakes, esample, slept>>

\* sleep(ms): time passes for every pin that is held at its active level
Sleep(ms, poll) ==
  /\ hold' = [p \in OutPins |->
                IF level[p] = OnLevel(p) THEN Min(hold[p] + ms, HoldCap)
                ELSE hold[p]]
  /\ lsleeps' = IF poll THEN lsleeps + 1 ELSE lsleeps
  /\ slept' = Min(slept + ms, HoldCap)
  /\ UNCHANGED <<level, mode, coop, loop, lsamples, cphase, lastSample,
                 allNonTarget, wroteSince, writes, lastHold, entry, changed,
                 handshakes, esample>>

\* gpio.get(_status_pin): one status sample; inloop tells a poll-loop sample
\* from the single entry test of lines 147 and 172
Sample(inloop) ==
  /\ lastSample' = Logical(StatusIsOn)
  /\ wroteSince' = FALSE
  /\ lsamples' = IF inloop THEN lsamples + 1 ELSE lsamples
  /\ esample' = IF inloop THEN esample ELSE Logical(StatusIsOn)
  /\ slept' = 0
  /\ allNonTarget' = IF inloop
                     THEN allNonTarget /\ Logical(StatusIsOn) # Target(call)
                     ELSE allNonTarget
  /\ UNCHANGED <<level, mode, coop, loop, lsleeps, cphase, writes, hold,
                 lastHold, entry, changed, handshakes>>

\* entering "for i in range(timeout)": a fresh loop named name
EnterLoop(name) ==
  /\ i' = -1
  /\ loop' = name
  /\ lsamples' = 0
  /\ lsleeps' = 0
  /\ allNonTarget' = TRUE

\* the observer's notes are per call: cleared when a call is entered
ObsReset(so) ==
  /\ coop' = "none"
  /\ loop' = "none"
  /\ lsamples' = 0
  /\ lsleeps' = 0
  /\ cphase' = "none"
  /\ lastSample' = "none"
  /\ allNonTarget' = TRUE
  /\ wroteSince' = FALSE
  /\ writes' = NoWrites
  /\ hold' = NoHold
  /\ lastHold' = NoHold
  /\ entry' = Logical(level["status"] = so)
  /\ changed' = FALSE
  /\ handshakes' = 0
  /\ esample' = "none"
  /\ slept' = 0

\* return / raise out of the outermost call
Finish(how) ==
  /\ pc' = "idle"
  /\ result' = how
  /\ UNCHANGED <<call, forced, i, timeout>>


(* ---- init(serial,dtr,rts,power,kill,status,power_on,kill_on,status_on) ---- *)

\* lines 59-65: the call stores the pin configuration
init_call(po, ko, so) ==
  /\ pc = "idle" /\ ~Configured
  /\ cfg' = [kill_pin |-> "kill", kill_on |-> ko, power_pin |-> "power",
             power_on |-> po, status_pin |-> "status", status_on |-> so]
  /\ pc' = "L68" /\ call' = "init" /\ result' = "running"
  /\ ObsReset(so)
  /\ UNCHANGED <<forced, i, timeout, level, mode, driver_init, default_net,
                 concVars>>

\* gpio.mode(_status_pin, INPUT_PULLDOWN if _status_on else INPUT_PULLUP)
L68 ==
  /\ pc = "L68"
  /\ mode' = [mode EXCEPT ![cfg.status_pin] =
                IF cfg.status_on # 0 THEN "INPUT_PULLDOWN" ELSE "INPUT_PULLUP"]
  /\ pc' = "L69"
  /\ UNCHANGED <<cfg, concVars, level, driver_init, default_net, call, forced, i,
                 timeout, result, obsVars>>

\* gpio.mode(_kill_pin, OUTPUT_PUSHPULL)
L69 ==
  /\ pc = "L69"
  /\ mode' = [mode EXCEPT ![cfg.kill_pin] = "OUTPUT_PUSHPULL"]
  /\ pc' = "L70"
  /\ UNCHANGED <<cfg, concVars, level, driver_init, default_net, call, forced, i,
                 timeout, result, obsVars>>

\* gpio.set(_kill_pin, HIGH^ _kill_on)
L70 ==
  /\ pc = "L70"
  /\ GpioSet(cfg.kill_pin, Xor(HIGH, cfg.kill_on))
  /\ pc' = "L71"
  /\ UNCHANGED <<cfg, concVars, driver_init, default_net, call, forced, i, timeout, result>>

\* gpio.mode(_power_pin, OUTPUT_PUSHPULL)
L71 ==
  /\ pc = "L71"
  /\ mode' = [mode EXCEPT ![cfg.power_pin] = "OUTPUT_PUSHPULL"]
  /\ pc' = "L72"
  /\ UNCHANGED <<cfg, concVars, level, driver_init, default_net, call, forced, i,
                 timeout, result, obsVars>>

\* gpio.set(_power_pin, HIGH^ _power_on)
L72 ==
  /\ pc = "L72"
  /\ GpioSet(cfg.power_pin, Xor(HIGH, cfg.power_on))
  /\ pc' = "L74"
  /\ UNCHANGED <<cfg, concVars, driver_init, default_net, call, forced, i, timeout, result>>

\* _init(serial,dtr,rts,__nameof(m95Exception)): the external driver's bring-up
L74 ==
  /\ pc = "L74"
  /\ driver_init' = TRUE
  /\ pc' = "L75"
  /\ UNCHANGED <<cfg, concVars, hwVars, default_net, call, forced, i, timeout, result,
                 obsVars>>

\* __builtins__.__default_net["gsm"] = __module__
L75 ==
  /\ pc = "L75"
  /\ default_net' = [default_net EXCEPT !.gsm = "m95"]
  /\ pc' = "L76"
  /\ UNCHANGED <<cfg, concVars, hwVars, driver_init, call, forced, i, timeout, result,
                 obsVars>>

\* __builtins__.__default_net["ssl"] = __module__
L76 ==
  /\ pc = "L76"
  /\ default_net' = [default_net EXCEPT !.ssl = "m95"]
  /\ pc' = "L77"
  /\ UNCHANGED <<cfg, concVars, hwVars, driver_init, call, forced, i, timeout, result,
                 obsVars>>

\* __builtins__.__default_net["sock"][0] = __module__
L77 ==
  /\ pc = "L77"
  /\ default_net' = [default_net EXCEPT !.sock0 = "m95"]
  /\ pc' = "L79"
  /\ UNCHANGED <<cfg, concVars, hwVars, driver_init, call, forced, i, timeout, result,
                 obsVars>>

\* a faulty L79: init calls shutdown() without forced
L79_graceful ==
  /\ pc = "L79"
  /\ forced' = FALSE
  /\ pc' = "L130"
  /\ UNCHANGED <<cfg, concVars, hwVars, engVars, call, i, timeout, result, obsVars>>

\* shutdown(True): init enters shutdown with forced bound to True
L79 ==
  /\ pc = "L79"
  /\ forced' = TRUE
  /\ pc' = "L130"
  /\ UNCHANGED <<cfg, concVars, hwVars, engVars, call, i, timeout, result, obsVars>>


(* ---- shutdown(forced=False) ---- *)

\* a caller invokes shutdown(f); sequencing before init is undefined
shutdown_call(f) ==
  /\ pc = "idle" /\ Configured
  /\ call' = "shutdown" /\ forced' = f /\ result' = "running"
  /\ pc' = "L130"
  /\ ObsReset(cfg.status_on)
  /\ UNCHANGED <<cfg, concVars, level, mode, engVars, i, timeout>>

\* a faulty L130: the short budget as the default
L130_short ==
  /\ pc = "L130"
  /\ timeout' = KillTimeout
  /\ pc' = "L131"
  /\ UNCHANGED <<cfg, concVars, hwVars, engVars, call, forced, i, result, obsVars>>

\* timeout = 125
L130 ==
  /\ pc = "L130"
  /\ timeout' = CoopTimeout
  /\ pc' = "L131"
  /\ UNCHANGED <<cfg, concVars, hwVars, engVars, call, forced, i, result, obsVars>>

\* if _shutdown(): the engine answers whether a normal shutdown was attempted
L131(r) ==
  /\ pc = "L131"
  /\ coop' = IF r THEN "yes" ELSE "no"
  /\ pc' = IF r THEN "L133" ELSE "L140"
  /\ UNCHANGED <<cfg, concVars, hwVars, engVars, call, forced, i, timeout, result,
                 loop, lsamples, lsleeps, cphase, lastSample, allNonTarget,
                 wroteSince, writes, hold, lastHold, entry, changed, handshakes,
                 esample, slept>>

\* for i in range(timeout): the range is built once
L133 ==
  /\ pc = "L133"
  /\ EnterLoop("coop")
  /\ pc' = "L133_next"
  /\ UNCHANGED <<cfg, concVars, hwVars, engVars, call, forced, timeout, result,
                 coop, cphase, lastSample, wroteSince, writes, hold, lastHold,
                 entry, changed, handshakes, esample, slept>>

\* a faulty L133: the cooperative wait given the else clause of the final loop
L133_next_raises ==
  /\ pc = "L133_next"
  /\ IF i + 1 < timeout
     THEN i' = i + 1 /\ pc' = "L134"
     ELSE i' = i /\ pc' = "L162"
  /\ UNCHANGED <<cfg, concVars, hwVars, engVars, call, forced, timeout, result,
                 obsVars>>

\* the loop takes its next index, or falls through when the range is used up
L133_next ==
  /\ pc = "L133_next"
  /\ IF i + 1 < timeout
     THEN i' = i + 1 /\ pc' = "L134"
     ELSE i' = i /\ pc' = "L140"
  /\ UNCHANGED <<cfg, concVars, hwVars, engVars, call, forced, timeout, result, obsVars>>

\* if gpio.get(_status_pin)!=_status_on: break
L134 ==
  /\ pc = "L134"
  /\ Sample(TRUE)
  /\ pc' = IF ~StatusIsOn THEN "L140" ELSE "L138"
  /\ UNCHANGED <<cfg, concVars, engVars, call, forced, i, timeout, result>>

\* sleep(100)
L138 ==
  /\ pc = "L138"
  /\ Sleep(PollMs, TRUE)
  /\ pc' = "L133_next"
  /\ UNCHANGED <<cfg, concVars, engVars, call, forced, i, timeout, result>>

\* if forced: ... elif ...: the observer notes how the cooperative wait ended
L140 ==
  /\ pc = "L140"
  /\ pc' = IF forced THEN "L141" ELSE "L147"
  /\ cphase' = IF coop = "no" THEN "skipped"
               ELSE IF lastSample = "OFF" THEN "found" ELSE "exhausted"
  /\ UNCHANGED <<cfg, concVars, hwVars, engVars, call, forced, i, timeout, result,
                 coop, loop, lsamples, lsleeps, lastSample, allNonTarget,
                 wroteSince, writes, hold, lastHold, entry, changed, handshakes,
                 esample, slept>>

\* gpio.set(_kill_pin, HIGH^ _kill_on)
L141 ==
  /\ pc = "L141"
  /\ GpioSet(cfg.kill_pin, Xor(HIGH, cfg.kill_on))
  /\ pc' = "L142"
  /\ UNCHANGED <<cfg, concVars, engVars, call, forced, i, timeout, result>>

\* sleep(500)
L142 ==
  /\ pc = "L142"
  /\ Sleep(PreMs, FALSE)
  /\ pc' = "L143"
  /\ UNCHANGED <<cfg, concVars, engVars, call, forced, i, timeout, result>>

\* gpio.set(_kill_pin, _kill_on)
L143 ==
  /\ pc = "L143"
  /\ GpioSet(cfg.kill_pin, cfg.kill_on)
  /\ pc' = "L144"
  /\ UNCHANGED <<cfg, concVars, engVars, call, forced, i, timeout, result>>

\* sleep(100)
L144 ==
  /\ pc = "L144"
  /\ Sleep(KillHoldMs, FALSE)
  /\ pc' = "L145"
  /\ UNCHANGED <<cfg, concVars, engVars, call, forced, i, timeout, result>>

\* a faulty L145: the kill pin written active again instead of released
L145_active ==
  /\ pc = "L145"
  /\ GpioSet(cfg.kill_pin, cfg.kill_on)
  /\ pc' = "L146"
  /\ UNCHANGED <<cfg, concVars, engVars, call, forced, i, timeout, result>>

\* gpio.set(_kill_pin, HIGH^ _kill_on)
L145 ==
  /\ pc = "L145"
  /\ GpioSet(cfg.kill_pin, Xor(HIGH, cfg.kill_on))
  /\ pc' = "L146"
  /\ UNCHANGED <<cfg, concVars, engVars, call, forced, i, timeout, result>>

\* a faulty L146: the kill path keeps the long budget
L146_long ==
  /\ pc = "L146"
  /\ timeout' = PowerOffTimeout
  /\ pc' = "L155"
  /\ UNCHANGED <<cfg, concVars, hwVars, engVars, call, forced, i, result, obsVars>>

\* timeout = 15
L146 ==
  /\ pc = "L146"
  /\ timeout' = KillTimeout
  /\ pc' = "L155"
  /\ UNCHANGED <<cfg, concVars, hwVars, engVars, call, forced, i, result, obsVars>>

\* a faulty L147: the comparison inverted, pulsing when the modem is already off
L147_inverted ==
  /\ pc = "L147"
  /\ Sample(FALSE)
  /\ pc' = IF ~StatusIsOn THEN "L148" ELSE "L155"
  /\ UNCHANGED <<cfg, concVars, engVars, call, forced, i, timeout, result>>

\* elif gpio.get(_status_pin)==_status_on:
L147 ==
  /\ pc = "L147"
  /\ Sample(FALSE)
  /\ pc' = IF StatusIsOn THEN "L148" ELSE "L155"
  /\ UNCHANGED <<cfg, concVars, engVars, call, forced, i, timeout, result>>

\* gpio.set(_power_pin, HIGH^ _power_on)
L148 ==
  /\ pc = "L148"
  /\ GpioSet(cfg.power_pin, Xor(HIGH, cfg.power_on))
  /\ pc' = "L149"
  /\ UNCHANGED <<cfg, concVars, engVars, call, forced, i, timeout, result>>

\* sleep(500)
L149 ==
  /\ pc = "L149"
  /\ Sleep(PreMs, FALSE)
  /\ pc' = "L150"
  /\ UNCHANGED <<cfg, concVars, engVars, call, forced, i, timeout, result>>

\* gpio.set(_power_pin, _power_on)
L150 ==
  /\ pc = "L150"
  /\ GpioSet(cfg.power_pin, cfg.power_on)
  /\ pc' = "L151"
  /\ UNCHANGED <<cfg, concVars, engVars, call, forced, i, timeout, result>>

\* sleep(750)
L151 ==
  /\ pc = "L151"
  /\ Sleep(PowerOffHoldMs, FALSE)
  /\ pc' = "L152"
  /\ UNCHANGED <<cfg, concVars, engVars, call, forced, i, timeout, result>>

\* gpio.set(_power_pin, HIGH^ _power_on)
L152 ==
  /\ pc = "L152"
  /\ GpioSet(cfg.power_pin, Xor(HIGH, cfg.power_on))
  /\ pc' = "L153"
  /\ UNCHANGED <<cfg, concVars, engVars, call, forced, i, timeout, result>>

\* timeout = 125
L153 ==
  /\ pc = "L153"
  /\ timeout' = PowerOffTimeout
  /\ pc' = "L155"
  /\ UNCHANGED <<cfg, concVars, hwVars, engVars, call, forced, i, result, obsVars>>

\* for i in range(timeout): the range is built once, from the budget chosen above
L155 ==
  /\ pc = "L155"
  /\ EnterLoop("verify")
  /\ pc' = "L155_next"
  /\ UNCHANGED <<cfg, concVars, hwVars, engVars, call, forced, timeout, result,
                 coop, cphase, lastSample, wroteSince, writes, hold, lastHold,
                 entry, changed, handshakes, esample, slept>>

\* a faulty L155: the loop without its else clause, falling through to line 163
L155_next_noelse ==
  /\ pc = "L155_next"
  /\ IF i + 1 < timeout
     THEN i' = i + 1 /\ pc' = "L156"
     ELSE i' = i /\ pc' = "L163"
  /\ UNCHANGED <<cfg, concVars, hwVars, engVars, call, forced, timeout, result, obsVars>>

\* the loop takes its next index, or runs its else clause when the range is used up
L155_next ==
  /\ pc = "L155_next"
  /\ IF i + 1 < timeout
     THEN i' = i + 1 /\ pc' = "L156"
     ELSE i' = i /\ pc' = "L162"
  /\ UNCHANGED <<cfg, concVars, hwVars, engVars, call, forced, timeout, result, obsVars>>

\* a faulty L156: the status pin compared against HIGH, not the configured level
L156_hardcoded ==
  /\ pc = "L156"
  /\ Sample(TRUE)
  /\ pc' = IF level[cfg.status_pin] # HIGH THEN "L163" ELSE "L160"
  /\ UNCHANGED <<cfg, concVars, engVars, call, forced, i, timeout, result>>

\* a faulty L156: the comparison inverted, breaking while the modem is still on
L156_inverted ==
  /\ pc = "L156"
  /\ Sample(TRUE)
  /\ pc' = IF StatusIsOn THEN "L163" ELSE "L160"
  /\ UNCHANGED <<cfg, concVars, engVars, call, forced, i, timeout, result>>

\* if gpio.get(_status_pin)!=_status_on: break
L156 ==
  /\ pc = "L156"
  /\ Sample(TRUE)
  /\ pc' = IF ~StatusIsOn THEN "L163" ELSE "L160"
  /\ UNCHANGED <<cfg, concVars, engVars, call, forced, i, timeout, result>>

\* a faulty L160: back to the for statement, which builds its range anew
L160_restart ==
  /\ pc = "L160"
  /\ Sleep(PollMs, TRUE)
  /\ pc' = "L155"
  /\ UNCHANGED <<cfg, concVars, engVars, call, forced, i, timeout, result>>

\* sleep(100)
L160 ==
  /\ pc = "L160"
  /\ Sleep(PollMs, TRUE)
  /\ pc' = "L155_next"
  /\ UNCHANGED <<cfg, concVars, engVars, call, forced, i, timeout, result>>

\* a faulty L162: a failed verification falls back to the kill pulse
L162_killretry ==
  /\ pc = "L162"
  /\ pc' = "L141"
  /\ UNCHANGED <<cfg, concVars, hwVars, engVars, call, forced, i, timeout,
                 result, obsVars>>

\* a faulty L162: a failing init withdraws its provider registration
L162_rollback ==
  /\ pc = "L162"
  /\ Finish("raised")
  /\ default_net' = IF call = "init"
                    THEN [gsm |-> "none", ssl |-> "none", sock0 |-> "none"]
                    ELSE default_net
  /\ UNCHANGED <<cfg, concVars, hwVars, driver_init, obsVars>>

\* else: raise HardwareInitializationError (it propagates through init too)
L162 ==
  /\ pc = "L162"
  /\ Finish("raised")
  /\ UNCHANGED <<cfg, concVars, hwVars, engVars, obsVars>>

\* sleep(500), then shutdown returns (and init with it, when init called it)
L163 ==
  /\ pc = "L163"
  /\ Sleep(SettleMs, FALSE)
  /\ Finish("returned")
  /\ UNCHANGED <<cfg, concVars, engVars>>

(* ---- startup() ---- *)

startup_call ==
  /\ pc = "idle" /\ Configured
  /\ call' = "startup" /\ result' = "running"
  /\ pc' = "L172"
  /\ ObsReset(cfg.status_on)
  /\ UNCHANGED <<cfg, concVars, level, mode, engVars, forced, i, timeout>>

\* a faulty L172: the comparison inverted, pulsing only when the modem is on
L172_inverted ==
  /\ pc = "L172"
  /\ Sample(FALSE)
  /\ pc' = IF StatusIsOn THEN "L173" ELSE "L179"
  /\ UNCHANGED <<cfg, concVars, engVars, call, forced, i, timeout, result>>

\* if gpio.get(_status_pin)!=_status_on:
L172 ==
  /\ pc = "L172"
  /\ Sample(FALSE)
  /\ pc' = IF ~StatusIsOn THEN "L173" ELSE "L179"
  /\ UNCHANGED <<cfg, concVars, engVars, call, forced, i, timeout, result>>

\* gpio.set(_power_pin, HIGH^ _power_on)
L173 ==
  /\ pc = "L173"
  /\ GpioSet(cfg.power_pin, Xor(HIGH, cfg.power_on))
  /\ pc' = "L174"
  /\ UNCHANGED <<cfg, concVars, engVars, call, forced, i, timeout, result>>

\* sleep(500)
L174 ==
  /\ pc = "L174"
  /\ Sleep(PreMs, FALSE)
  /\ pc' = "L175"
  /\ UNCHANGED <<cfg, concVars, engVars, call, forced, i, timeout, result>>

\* gpio.set(_power_pin, _power_on)
L175 ==
  /\ pc = "L175"
  /\ GpioSet(cfg.power_pin, cfg.power_on)
  /\ pc' = "L176"
  /\ UNCHANGED <<cfg, concVars, engVars, call, forced, i, timeout, result>>

\* a faulty L176: the power-on hold as short as the lead-in delay
L176_short ==
  /\ pc = "L176"
  /\ Sleep(PreMs, FALSE)
  /\ pc' = "L177"
  /\ UNCHANGED <<cfg, concVars, engVars, call, forced, i, timeout, result>>

\* sleep(1100)
L176 ==
  /\ pc = "L176"
  /\ Sleep(PowerOnHoldMs, FALSE)
  /\ pc' = "L177"
  /\ UNCHANGED <<cfg, concVars, engVars, call, forced, i, timeout, result>>

\* gpio.set(_power_pin, HIGH^ _power_on)
L177 ==
  /\ pc = "L177"
  /\ GpioSet(cfg.power_pin, Xor(HIGH, cfg.power_on))
  /\ pc' = "L179"
  /\ UNCHANGED <<cfg, concVars, engVars, call, forced, i, timeout, result>>

\* the budget of "for i in range(20)"
L179_range == StartupTimeout

\* for i in range(20): the range is built once
L179 ==
  /\ pc = "L179"
  /\ EnterLoop("verify")
  /\ pc' = "L179_next"
  /\ UNCHANGED <<cfg, concVars, hwVars, engVars, call, forced, timeout, result,
                 coop, cphase, lastSample, wroteSince, writes, hold, lastHold,
                 entry, changed, handshakes, esample, slept>>

\* a faulty L179: one iteration too many
L179_next_offbyone ==
  /\ pc = "L179_next"
  /\ IF i + 1 <= L179_range
     THEN i' = i + 1 /\ pc' = "L180"
     ELSE i' = i /\ pc' = "L186"
  /\ UNCHANGED <<cfg, concVars, hwVars, engVars, call, forced, timeout, result,
                 obsVars>>

\* the loop takes its next index, or runs its else clause when the range is used up
L179_next ==
  /\ pc = "L179_next"
  /\ IF i + 1 < L179_range
     THEN i' = i + 1 /\ pc' = "L180"
     ELSE i' = i /\ pc' = "L186"
  /\ UNCHANGED <<cfg, concVars, hwVars, engVars, call, forced, timeout, result, obsVars>>

\* a faulty L180: the comparison inverted, breaking while the modem is still off
L180_inverted ==
  /\ pc = "L180"
  /\ Sample(TRUE)
  /\ pc' = IF ~StatusIsOn THEN "L187" ELSE "L184"
  /\ UNCHANGED <<cfg, concVars, engVars, call, forced, i, timeout, result>>

\* if gpio.get(_status_pin)==_status_on: break
L180 ==
  /\ pc = "L180"
  /\ Sample(TRUE)
  /\ pc' = IF StatusIsOn THEN "L187" ELSE "L184"
  /\ UNCHANGED <<cfg, concVars, engVars, call, forced, i, timeout, result>>

\* sleep(100)
L184 ==
  /\ pc = "L184"
  /\ Sleep(PollMs, TRUE)
  /\ pc' = "L179_next"
  /\ UNCHANGED <<cfg, concVars, engVars, call, forced, i, timeout, result>>

\* else: raise HardwareInitializationError
L186 ==
  /\ pc = "L186"
  /\ Finish("raised")
  /\ UNCHANGED <<cfg, concVars, hwVars, engVars, obsVars>>

\* a faulty L187: a poll interval where the settle delay should be
L187_short ==
  /\ pc = "L187"
  /\ Sleep(PollMs, FALSE)
  /\ pc' = "L188"
  /\ UNCHANGED <<cfg, concVars, engVars, call, forced, i, timeout, result>>

\* sleep(500)
L187 ==
  /\ pc = "L187"
  /\ Sleep(SettleMs, FALSE)
  /\ pc' = "L188"
  /\ UNCHANGED <<cfg, concVars, engVars, call, forced, i, timeout, result>>

\* _startup(): the engine's startup handshake, then startup returns
L188 ==
  /\ pc = "L188"
  /\ handshakes' = handshakes + 1
  /\ Finish("returned")
  /\ UNCHANGED <<cfg, concVars, hwVars, engVars, coop, loop, lsamples, lsleeps, cphase,
                 lastSample, allNonTarget, wroteSince, writes, hold, lastHold,
                 entry, changed, esample, slept>>

(* ---- the hardware ---- *)

\* the modem drives the status pin: it may toggle at any moment
StatusChange ==
  /\ level' = [level EXCEPT !["status"] = Xor(HIGH, @)]
  /\ changed' = IF pc = "idle" THEN changed ELSE TRUE
  /\ UNCHANGED <<cfg, concVars, mode, engVars, ctlVars, coop, loop, lsamples, lsleeps,
                 cphase, lastSample, allNonTarget, wroteSince, writes, hold,
                 lastHold, entry, handshakes, esample, slept>>

Next ==
  \/ \E po \in Levels, ko \in Levels, so \in Levels : init_call(po, ko, so)
  \/ L68 \/ L69 \/ L70 \/ L71 \/ L72 \/ L74 \/ L75 \/ L76 \/ L77 \/ L79
  \/ \E f \in BOOLEAN : shutdown_call(f)
  \/ L130
  \/ \E r \in BOOLEAN : L131(r)
  \/ L133 \/ L133_next \/ L134 \/ L138 \/ L140
  \/ L141 \/ L142 \/ L143 \/ L144 \/ L145 \/ L146
  \/ L147 \/ L148 \/ L149 \/ L150 \/ L151 \/ L152 \/ L153
  \/ L155 \/ L155_next \/ L156 \/ L160 \/ L162 \/ L163
  \/ startup_call
  \/ L172 \/ L173 \/ L174 \/ L175 \/ L176 \/ L177
  \/ L179 \/ L179_next \/ L180 \/ L184 \/ L186 \/ L187 \/ L188
  \/ StatusChange

Spec == Init /\ [][Next]_vars


(* ---- what an observer of one call can say ---- *)

\* no call is running and the last one has returned or raised
Done == pc = "idle" /\ result \in {"returned", "raised"}

\* the number of times the running (or last) call drove the pin active
Pulses(p) == Cardinality({k \in 1..Len(writes[p]) : writes[p][k] = "A"})

\* the status pin read lv when the call was entered and has not moved since
Steady(lv) == entry = lv /\ ~changed

\* the pin's last two writes are active, then inactive: a pulse was completed
PulseDone(p) ==
  /\ Len(writes[p]) >= 2
  /\ writes[p][Len(writes[p])] = "I"
  /\ writes[p][Len(writes[p]) - 1] = "A"

\* the program counters between driving a pin active and releasing it
HoldWindow == {"L144", "L145", "L151", "L152", "L176", "L177"}

(* ---- C1 ---- *)

\* C1: if every sample of the final verification loop read the non-target
\* level, the call raised HardwareInitializationError after exactly its budget
\* of samples (20 for startup, 15 for a forced and 125 for a non-forced
\* shutdown), wrote no pin after the last sample and never signalled the
\* startup handshake; shutdown(False) with the status steadily ON raises after
\* a final verification of exactly 125 samples.
C1_ExhaustedVerificationRaises ==
  /\ (Done /\ allNonTarget) =>
       /\ result = "raised"
       /\ ~wroteSince
       /\ handshakes = 0
       /\ lsamples = (IF call = "startup" THEN 20 ELSE IF forced THEN 15 ELSE 125)
  /\ (Done /\ call = "shutdown" /\ ~forced /\ Steady("ON")) =>
       (result = "raised" /\ loop = "verify" /\ lsamples = 125)

C1_Witness ==
  /\ Done /\ call = "shutdown" /\ ~forced /\ Steady("ON")
  /\ result = "raised" /\ loop = "verify" /\ lsamples = 125 /\ allNonTarget

(* ---- C2 ---- *)

\* C2: startup() returns normally only if its last status sample read ON, and
\* shutdown(forced), for both values of forced, only if its last status sample
\* read OFF; no pin was written after that sample.
C2_ReturnVerifiedBySample ==
  (Done /\ result = "returned" /\ call \in {"startup", "shutdown"}) =>
    /\ lastSample = (IF call = "startup" THEN "ON" ELSE "OFF")
    /\ loop = "verify" /\ lsamples >= 1
    /\ ~wroteSince

C2_Witness ==
  /\ Done /\ result = "returned" /\ call = "shutdown" /\ forced
  /\ entry = "ON" /\ lastSample = "OFF" /\ Pulses("kill") = 1

(* ---- C3 ---- *)

\* the delay that follows the active write of the pulse on pin p
SecondDelay(p) ==
  IF p = "kill" THEN 100 ELSE IF call = "startup" THEN 1100 ELSE 750

C4_ForcedKillsOnce ==
  (call = "shutdown" /\ forced) =>
    /\ Pulses("kill") <= 1
    /\ loop = "verify" => (Pulses("kill") = 1 /\ PulseDone("kill") /\ lsamples <= 15)
    /\ Done => loop = "verify"

C4_Witness ==
  /\ Done /\ call = "shutdown" /\ forced /\ Steady("OFF") /\ coop = "yes"
  /\ result = "returned" /\ Pulses("kill") = 1

(* ---- C5 ---- *)

\* C5 as stated: startup() and shutdown(forced), for every value of forced,
\* issue no pulse on any pin when the status pin reads the target level on
\* entry and keeps reading it.
C5_NoPulseWhenSatisfied ==
  (call \in {"startup", "shutdown"}
     /\ Steady(IF call = "startup" THEN "ON" ELSE "OFF")) =>
    (Pulses("power") = 0 /\ Pulses("kill") = 0)

\* C5 amended: startup() and shutdown(forced=False) write no pin at all when
\* the status pin reads the target level on entry and keeps reading it;
\* shutdown(forced=True) is not idempotent in this sense: it has pulsed the
\* kill pin once when it ends.
C5_NoPulseWhenSatisfiedUnlessForced ==
  /\ ((call = "startup" \/ (call = "shutdown" /\ ~forced))
        /\ Steady(IF call = "startup" THEN "ON" ELSE "OFF")) =>
       writes = NoWrites
  /\ (Done /\ call = "shutdown" /\ forced /\ Steady("OFF")) => Pulses("kill") = 1

C5_Witness ==
  /\ Done /\ call = "shutdown" /\ ~forced /\ Steady("OFF") /\ coop = "no"
  /\ result = "returned" /\ writes = NoWrites

(* ---- C6 ---- *)

\* C6: shutdown(forced=True) reaches its kill pulse without waiting for the
\* modem to detach: when the pulse begins (line 141) the call has taken no
\* status sample and slept no poll interval, whatever the engine answered.
C6_KillBeginsWithoutWaiting ==
  (pc = "L141" /\ call \in {"shutdown", "init"}) =>
    (lastSample = "none" /\ lsamples = 0 /\ lsleeps = 0)

(* ---- C7 ---- *)

\* C7: startup() entered with the status pin reading ON, and staying ON,
\* writes neither the power nor the kill pin, returns without error and
\* signals the engine's startup handshake exactly once.
C7_StartupWhenAlreadyOn ==
  (call = "startup" /\ Steady("ON")) =>
    /\ writes = NoWrites
    /\ result # "raised"
    /\ handshakes = (IF Done THEN 1 ELSE 0)

C7_Witness ==
  /\ Done /\ call = "startup" /\ Steady("ON")
  /\ result = "returned" /\ handshakes = 1 /\ lsamples = 1

(* ---- C8 ---- *)

\* C8: shutdown(forced=False) entered with the status pin reading OFF, and
\* staying OFF, issues no pulse, verifies with the 125-sample budget and
\* returns without error, whatever the engine answered.
C8_GracefulWhenAlreadyOff ==
  (call = "shutdown" /\ ~forced /\ Steady("OFF")) =>
    /\ Pulses("power") = 0 /\ Pulses("kill") = 0
    /\ result # "raised"
    /\ loop = "verify" => timeout = 125
    /\ Done => (loop = "verify" /\ lastSample = "OFF")

C8_Witness ==
  /\ Done /\ call = "shutdown" /\ ~forced /\ Steady("OFF") /\ coop = "yes"
  /\ result = "returned" /\ timeout = 125 /\ loop = "verify"

(* ---- C9 ---- *)

\* C9: for all 8 polarity combinations, when init's pin configuration is
\* complete and the external driver is not yet initialised (line 74), the
\* power pin and the kill pin are at the negation of their active level.
C9_ConfigLeavesPinsInactive ==
  pc = "L74" =>
    /\ ~driver_init
    /\ level["power"] = 1 - cfg.power_on
    /\ level["kill"] = 1 - cfg.kill_on
    /\ mode["power"] = "OUTPUT_PUSHPULL" /\ mode["kill"] = "OUTPUT_PUSHPULL"

C9_Witness ==
  /\ pc = "L74" /\ cfg.power_on = 1 /\ cfg.kill_on = 1 /\ cfg.status_on = 0
  /\ level["power"] = 0 /\ level["kill"] = 0

(* ---- C10 ---- *)

\* C10: whatever the status pin read before, a normal return of init follows
\* exactly one kill pulse, no power pulse and a final status sample reading
\* OFF; when none of the 15 samples of the forced budget reads OFF, init
\* raises HardwareInitializationError instead.
C10_InitOffBaseline ==
  (Done /\ call = "init") =>
    /\ result = "returned" =>
         /\ Pulses("kill") = 1 /\ PulseDone("kill")
         /\ Pulses("power") = 0
         /\ lastSample = "OFF" /\ ~wroteSince
         /\ loop = "verify" /\ lsamples <= 15
    /\ allNonTarget <=> result = "raised"
    /\ result = "raised" => lsamples = 15

C10_Witness ==
  /\ Done /\ call = "init" /\ result = "returned" /\ entry = "ON"
  /\ Pulses("kill") = 1 /\ lastSample = "OFF"

(* ---- C11 ---- *)

\* C11: startup() whose entry test read OFF issues exactly one power pulse
\* before verifying, and returns (having signalled the handshake) when one of
\* its at most 20 verification samples reads ON; shutdown(False) whose entry
\* test read ON, the engine having reported no cooperative attempt, begins its
\* one power pulse without any polling before it, and returns when one of its
\* at most 125 verification samples reads OFF.
C11_OnePulseThenSuccess ==
  /\ (call = "startup" /\ esample = "OFF") =>
       /\ Pulses("power") <= 1 /\ Pulses("kill") = 0
       /\ loop = "verify" => (Pulses("power") = 1 /\ PulseDone("power"))
       /\ (Done /\ ~allNonTarget) =>
            (result = "returned" /\ lsamples <= 20 /\ handshakes = 1)
  /\ (call = "shutdown" /\ ~forced /\ coop = "no" /\ esample = "ON") =>
       /\ Pulses("power") <= 1 /\ Pulses("kill") = 0
       /\ pc = "L148" => (loop = "none" /\ lsamples = 0 /\ lsleeps = 0)
       /\ loop = "verify" => (Pulses("power") = 1 /\ PulseDone("power"))
       /\ (Done /\ ~allNonTarget) => (result = "returned" /\ lsamples <= 125)

C11_Witness ==
  /\ Done /\ call = "startup" /\ esample = "OFF" /\ result = "returned"
  /\ lsamples = 3 /\ lsleeps = 2 /\ Pulses("power") = 1

(* ---- C12 ---- *)

\* C12: using up the cooperative wait (the engine reported an attempt and all
\* 125 samples of the first loop read ON) is no error: nothing is raised while
\* the first loop is the current one, control reaches the pin action (the kill
\* pulse when forced, the entry test of line 147 otherwise), and the call
\* returns normally when a sample of the final verification reads OFF.
C12_CoopTimeoutNotFatal ==
  /\ loop = "coop" => result = "running"
  /\ (pc = "L140" /\ coop = "yes" /\ lastSample = "ON") =>
       (lsamples = 125 /\ allNonTarget)
  /\ (Done /\ cphase = "exhausted") =>
       /\ IF forced THEN Pulses("kill") = 1 ELSE esample # "none"
       /\ loop = "verify"
       /\ ~allNonTarget => result = "returned"

C12_Witness ==
  /\ Done /\ call = "shutdown" /\ ~forced /\ cphase = "exhausted"
  /\ result = "returned" /\ Pulses("power") = 1

(* ---- startup() and shutdown(forced) called from two threads ---- *)
(* Thread S calls startup() and thread D calls shutdown(forced), again and   *)
(* again, after init has returned.  Each thread has its own program counter, *)
(* loop index and locals; the pins and the stored configuration are shared.  *)
(* The caller may serialise the calls with one lock (lock is "free" or names *)
(* its holder) or not at all (lock = "off").                                 *)

\* what the two threads leave alone: the sequential caller and its observer
seqFrozen == <<cfg, mode, engVars, ctlVars, obsVars>>

\* the state init leaves behind when it returns (here: defaults of line 42,
\* the engine reported no attempt, the status pin read OFF at the first sample)
InitConc ==
  /\ cfg = [kill_pin |-> "kill", kill_on |-> LOW, power_pin |-> "power",
            power_on |-> LOW, status_pin |-> "status", status_on |-> HIGH]
  /\ level \in {l \in [Pins -> Levels] : l["power"] = HIGH /\ l["kill"] = HIGH}
  /\ mode = [power |-> "OUTPUT_PUSHPULL", kill |-> "OUTPUT_PUSHPULL",
             status |-> "INPUT_PULLDOWN"]
  /\ driver_init = TRUE
  /\ default_net = [gsm |-> "m95", ssl |-> "m95", sock0 |-> "m95"]
  /\ pc = "idle" /\ call = "init" /\ forced = TRUE /\ i = 0
  /\ timeout = KillTimeout /\ result = "returned"
  /\ coop = "no" /\ loop = "verify" /\ lsamples = 1 /\ lsleeps = 0
  /\ cphase = "skipped" /\ lastSample = "OFF" /\ allNonTarget = FALSE
  /\ wroteSince = FALSE
  /\ writes = [power |-> <<"I">>, kill |-> <<"I", "I", "A", "I">>]
  /\ hold = [power |-> 0, kill |-> KillHoldMs]
  /\ lastHold = [power |-> 0, kill |-> KillHoldMs]
  /\ entry = "OFF" /\ changed = FALSE /\ handshakes = 0
  /\ esample = "none" /\ slept = SettleMs
  /\ tpc = [t \in Threads |-> "idle"]
  /\ ti = [t \in Threads |-> -1]
  /\ ttimeout = [t \in Threads |-> 0]
  /\ tforced = [t \in Threads |-> FALSE]
  /\ lock \in {"off", "free"}

\* thread t moves on to nxt
Goto(t, nxt) == tpc' = [tpc EXCEPT ![t] = nxt]

\* thread t enters a call: with a lock in use it must find it free and takes it
CCall(t, f, start) ==
  /\ tpc[t] = "idle"
  /\ lock \in {"off", "free"}
  /\ lock' = IF lock = "off" THEN "off" ELSE t
  /\ tforced' = [tforced EXCEPT ![t] = f]
  /\ Goto(t, start)
  /\ UNCHANGED <<level, ti, ttimeout, seqFrozen>>

\* thread t leaves its call at line at (return or raise): its locals are gone
\* and the lock is freed
CFinish(t, at) ==
  /\ tpc[t] = at
  /\ lock' = IF lock = "off" THEN "off" ELSE "free"
  /\ Goto(t, "idle")
  /\ ti' = [ti EXCEPT ![t] = -1]
  /\ ttimeout' = [ttimeout EXCEPT ![t] = 0]
  /\ tforced' = [tforced EXCEPT ![t] = FALSE]
  /\ UNCHANGED <<level, seqFrozen>>

\* gpio.set(pin, lv) at line at
CSet(t, at, pin, lv, nxt) ==
  /\ tpc[t] = at
  /\ level' = [level EXCEPT ![pin] = lv]
  /\ Goto(t, nxt)
  /\ UNCHANGED <<ti, ttimeout, tforced, lock, seqFrozen>>

\* sleep(ms) at line at: the thread is suspended, the other may run
CSleep(t, at, ms, nxt) ==
  /\ tpc[t] = at
  /\ ms > 0
  /\ Goto(t, nxt)
  /\ UNCHANGED <<level, ti, ttimeout, tforced, lock, seqFrozen>>

\* a test at line at: on to yes when cond holds, to no otherwise
CTest(t, at, cond, yes, no) ==
  /\ tpc[t] = at
  /\ Goto(t, IF cond THEN yes ELSE no)
  /\ UNCHANGED <<level, ti, ttimeout, tforced, lock, seqFrozen>>

\* timeout = v at line at
CAssign(t, at, v, nxt) ==
  /\ tpc[t] = at
  /\ ttimeout' = [ttimeout EXCEPT ![t] = v]
  /\ Goto(t, nxt)
  /\ UNCHANGED <<level, ti, tforced, lock, seqFrozen>>

\* for i in range(...) at line at: the range is built
CFor(t, at, nxt) ==
  /\ tpc[t] = at
  /\ ti' = [ti EXCEPT ![t] = -1]
  /\ Goto(t, nxt)
  /\ UNCHANGED <<level, ttimeout, tforced, lock, seqFrozen>>

\* the loop takes its next index and runs body, or leaves to exit
CNext(t, at, bound, body, exit) ==
  /\ tpc[t] = at
  /\ IF ti[t] + 1 < bound
     THEN ti' = [ti EXCEPT ![t] = ti[t] + 1] /\ Goto(t, body)
     ELSE ti' = ti /\ Goto(t, exit)
  /\ UNCHANGED <<level, ttimeout, tforced, lock, seqFrozen>>

\* thread S: startup(), lines 165-188
S_call == CCall("S", FALSE, "L172")
S_L172 == CTest("S", "L172", ~StatusIsOn, "L173", "L179")
S_L173 == CSet("S", "L173", cfg.power_pin, Xor(HIGH, cfg.power_on), "L174")
S_L174 == CSleep("S", "L174", PreMs, "L175")
S_L175 == CSet("S", "L175", cfg.power_pin, cfg.power_on, "L176")
S_L176 == CSleep("S", "L176", PowerOnHoldMs, "L177")
S_L177 == CSet("S", "L177", cfg.power_pin, Xor(HIGH, cfg.power_on), "L179")
S_L179 == CFor("S", "L179", "L179_next")
S_L179_next == CNext("S", "L179_next", L179_range, "L180", "L186")
S_L180 == CTest("S", "L180", StatusIsOn, "L187", "L184")
S_L184 == CSleep("S", "L184", PollMs, "L179_next")
S_L186 == CFinish("S", "L186")
S_L187 == CSleep("S", "L187", SettleMs, "L188")
S_L188 == CFinish("S", "L188")

\* thread D: shutdown(forced), lines 122-163
D_call(f) == CCall("D", f, "L130")
D_L130 == CAssign("D", "L130", CoopTimeout, "L131")
D_L131(r) == CTest("D", "L131", r, "L133", "L140")
D_L133 == CFor("D", "L133", "L133_next")
D_L133_next == CNext("D", "L133_next", ttimeout["D"], "L134", "L140")
D_L134 == CTest("D", "L134", ~StatusIsOn, "L140", "L138")
D_L138 == CSleep("D", "L138", PollMs, "L133_next")
D_L140 == CTest("D", "L140", tforced["D"], "L141", "L147")
D_L141 == CSet("D", "L141", cfg.kill_pin, Xor(HIGH, cfg.kill_on), "L142")
D_L142 == CSleep("D", "L142", PreMs, "L143")
D_L143 == CSet("D", "L143", cfg.kill_pin, cfg.kill_on, "L144")
D_L144 == CSleep("D", "L144", KillHoldMs, "L145")
D_L145 == CSet("D", "L145", cfg.kill_pin, Xor(HIGH, cfg.kill_on), "L146")
D_L146 == CAssign("D", "L146", KillTimeout, "L155")
D_L147 == CTest("D", "L147", StatusIsOn, "L148", "L155")
D_L148 == CSet("D", "L148", cfg.power_pin, Xor(HIGH, cfg.power_on), "L149")
D_L149 == CSleep("D", "L149", PreMs, "L150")
\* a faulty L150: the inactive level written where the pulse should begin
D_L150_inactive ==
  CSet("D", "L150", cfg.power_pin, Xor(HIGH, cfg.power_on), "L151")
D_L150 == CSet("D", "L150", cfg.power_pin, cfg.power_on, "L151")
D_L151 == CSleep("D", "L151", PowerOffHoldMs, "L152")
D_L152 == CSet("D", "L152", cfg.power_pin, Xor(HIGH, cfg.power_on), "L153")
D_L153 == CAssign("D", "L153", PowerOffTimeout, "L155")
D_L155 == CFor("D", "L155", "L155_next")
D_L155_next == CNext("D", "L155_next", ttimeout["D"], "L156", "L162")
D_L156 == CTest("D", "L156", ~StatusIsOn, "L163", "L160")
D_L160 == CSleep("D", "L160", PollMs, "L155_next")
D_L162 == CFinish("D", "L162")
D_L163 == CFinish("D", "L163")

\* the modem toggles the status pin
CStatusChange ==
  /\ level' = [level EXCEPT !["status"] = Xor(HIGH, @)]
  /\ UNCHANGED <<concVars, seqFrozen>>

NextConc ==
  \/ S_call \/ S_L172 \/ S_L173 \/ S_L174 \/ S_L175 \/ S_L176 \/ S_L177
  \/ S_L179 \/ S_L179_next \/ S_L180 \/ S_L184 \/ S_L186 \/ S_L187 \/ S_L188
  \/ \E f \in BOOLEAN : D_call(f)
  \/ D_L130
  \/ \E r \in BOOLEAN : D_L131(r)
  \/ D_L133 \/ D_L133_next \/ D_L134 \/ D_L138 \/ D_L140
  \/ D_L141 \/ D_L142 \/ D_L143 \/ D_L144 \/ D_L145 \/ D_L146
  \/ D_L147 \/ D_L148 \/ D_L149 \/ D_L150 \/ D_L151 \/ D_L152 \/ D_L153
  \/ D_L155 \/ D_L155_next \/ D_L156 \/ D_L160 \/ D_L162 \/ D_L163
  \/ CStatusChange

SpecConc == InitConc /\ [][NextConc]_vars

\* thread t is between driving the power pin active and releasing it
PowerHold(t) ==
  IF t = "S" THEN tpc[t] \in {"L176", "L177"} ELSE tpc[t] \in {"L151", "L152"}

\* a thread is inside the hold window of its power pulse and the pin is not
\* at its active level: the other call has written it
Interference ==
  \E t \in Threads : PowerHold(t) /\ level["power"] # cfg.power_on

(* ---- C13 ---- *)

\* C13: when the caller serialises startup() and shutdown() with one lock, no
\* thread is ever inside the hold window of its pulse with the power pin
\* released, and only the lock's holder is inside a call; without the lock
\* such a state is reachable (the witness), the pin being released by the
\* other call.
C13_SerialisedNoInterference ==
  lock # "off" =>
    /\ ~Interference
    /\ \A t \in Threads : tpc[t] # "idle" => lock = t

C13_Witness ==
  /\ lock = "off" /\ Interference
  /\ tpc["S"] = "L177" /\ tpc["D"] = "L149"

(* ---- C14 ---- *)

\* C14: the engine's startup handshake is signalled at most once per call,
\* and only by a startup() that returns: after a status sample that read ON,
\* after at least 500 ms slept since that sample, with no pin written since
\* and both pins released; it is never signalled while a call is still
\* running, so never before or during a pulse.
C14_HandshakeAfterSettle ==
  /\ handshakes <= 1
  /\ handshakes = 1 =>
       /\ call = "startup" /\ Done /\ result = "returned"
       /\ lastSample = "ON" /\ slept >= 500 /\ ~wroteSince
       /\ \A p \in OutPins : level[p] # OnLevel(p)
       /\ \A p \in OutPins : writes[p] = <<>> \/ PulseDone(p)

C14_Witness ==
  /\ handshakes = 1 /\ call = "startup" /\ Pulses("power") = 1
  /\ slept = 500 /\ lastSample = "ON"

(* ---- C15 ---- *)

\* C15: once init has written a pin inactive (the kill pin at line 70, the
\* power pin at line 72), that pin is at its active level only between the
\* active write of a pulse and its release (lines 144-145, 151-152, 176-177);
\* so both pins are inactive at every call boundary of init, startup() and
\* shutdown(forced), whether the call returned or raised.
C15_PinsInactiveOutsideHold ==
  /\ (Configured /\ pc \notin {"L68", "L69", "L70"}) =>
       (level["kill"] = cfg.kill_on => pc \in {"L144", "L145"})
  /\ (Configured /\ pc \notin {"L68", "L69", "L70", "L71", "L72"}) =>
       (level["power"] = cfg.power_on => pc \in {"L151", "L152", "L176", "L177"})
  /\ (Configured /\ pc = "idle") =>
       (level["kill"] = 1 - cfg.kill_on /\ level["power"] = 1 - cfg.power_on)

C15_Witness ==
  /\ Done /\ call = "shutdown" /\ ~forced /\ result = "raised"
  /\ Pulses("power") = 1
  /\ level["kill"] # cfg.kill_on /\ level["power"] # cfg.power_on

(* ---- C16 ---- *)

\* the budget of the loop the call is in (or was last in)
LoopBudget ==
  IF loop = "coop" THEN 125
  ELSE IF call = "startup" THEN 20 ELSE IF forced THEN 15 ELSE 125

\* C16: every poll loop samples before it sleeps: a loop of budget N takes at
\* most N samples and has never slept more often than it has sampled; a loop
\* left by its break at the k-th sample has slept k-1 poll intervals (none when
\* the pin was at the target level all along); a loop that used up its budget
\* took exactly N samples, the last one reading the non-target level and no
\* sample following it.
C16_SampleBeforeSleep ==
  loop # "none" =>
    /\ lsamples <= LoopBudget
    /\ lsleeps <= lsamples /\ lsamples <= lsleeps + 1
    /\ (loop = "coop" /\ cphase = "found") => lsleeps = lsamples - 1
    /\ (loop = "coop" /\ cphase = "exhausted") => lsamples = 125
    /\ (pc \in {"L163", "L187"} \/ (Done /\ result = "returned")) =>
         lsleeps = lsamples - 1
    /\ (pc \in {"L162", "L186"} \/ (Done /\ result = "raised")) =>
         /\ lsamples = LoopBudget
         /\ lastSample = (IF call = "startup" THEN "OFF" ELSE "ON")
    /\ (Done /\ Steady(IF call = "startup" THEN "ON" ELSE "OFF")) =>
         (lsamples = 1 /\ lsleeps = 0)

C16_Witness ==
  /\ Done /\ call = "shutdown" /\ forced /\ result = "returned"
  /\ loop = "verify" /\ lsamples = 4 /\ lsleeps = 3

(* ---- C17 ---- *)

\* C17: shutdown(forced=False) never writes the kill pin, not even after its
\* verification failed; shutdown(forced=True) never writes the power pin;
\* startup() never writes the kill pin; and no step of startup() or
\* shutdown() changes the stored pin configuration, the pin modes, the
\* driver's initialisation or the provider registry.
C17_NoCrossRoleWrites ==
  /\ []((call = "shutdown" /\ ~forced) =>
          (writes["kill"] = <<>> /\ level["kill"] = 1 - cfg.kill_on))
  /\ []((call = "shutdown" /\ forced) =>
          (writes["power"] = <<>> /\ level["power"] = 1 - cfg.power_on))
  /\ [](call = "startup" =>
          (writes["kill"] = <<>> /\ level["kill"] = 1 - cfg.kill_on))
  /\ [][call' \in {"startup", "shutdown"} =>
          /\ cfg' = cfg
          /\ default_net' = default_net
          /\ driver_init' = driver_init
          /\ mode' = mode]_vars

C17_Witness ==
  /\ Done /\ call = "shutdown" /\ ~forced /\ result = "raised"
  /\ writes["power"] = <<"I", "A", "I">> /\ writes["kill"] = <<>>
  /\ default_net = [gsm |-> "m95", ssl |-> "m95", sock0 |-> "m95"]

(* ---- C18 ---- *)

\* the logical value of the last write to pin p ("none" before the first)
LastWrite(p) ==
  IF writes[p] = <<>> THEN "none" ELSE writes[p][Len(writes[p])]

\* C18: for each of the 8 polarity combinations, the path taken depends only
\* on the logical status readings (every branch is the one the reading, taken
\* against the configured ON level, selects) and each line writes the same
\* logical level (inactive, active, inactive through a pulse), so equal
\* logical readings give equal logical pin actions, sleeps and outcome.
C18_PolarityIndependent ==
  /\ pc \in {"L138", "L160", "L187", "L188"} => lastSample = "ON"
  /\ pc \in {"L163", "L184"} => lastSample = "OFF"
  /\ pc \in {"L148", "L149", "L150", "L151", "L152", "L153"} => esample = "ON"
  /\ pc \in {"L173", "L174", "L175", "L176", "L177"} => esample = "OFF"
  /\ (call = "startup" /\ esample = "ON") => writes = NoWrites
  /\ (call = "shutdown" /\ ~forced /\ esample = "OFF") => writes = NoWrites
  /\ pc \in {"L142", "L143", "L146"} => LastWrite("kill") = "I"
  /\ pc \in {"L144", "L145"} => LastWrite("kill") = "A"
  /\ pc \in {"L149", "L150", "L153", "L174", "L175"} => LastWrite("power") = "I"
  /\ pc \in {"L151", "L152", "L176", "L177"} => LastWrite("power") = "A"
  /\ (call = "startup" /\ loop = "verify" /\ esample = "OFF") =>
       writes["power"] = <<"I", "A", "I">>
  /\ (call = "shutdown" /\ loop = "verify") =>
       writes = [power |-> IF ~forced /\ esample = "ON"
                           THEN <<"I", "A", "I">> ELSE <<>>,
                 kill |-> IF forced THEN <<"I", "A", "I">> ELSE <<>>]
  /\ (Done /\ call \in {"startup", "shutdown"}) =>
       (result = "raised" <=> allNonTarget)

C18_Witness ==
  /\ Configured
  /\ cfg.status_on = LOW /\ cfg.power_on = HIGH /\ cfg.kill_on = LOW
  /\ pc = "L176" /\ esample = "OFF"
  /\ level["power"] = HIGH /\ writes["power"] = <<"I", "A">>

(* ---- C19 ---- *)

\* the most status samples the running call can still take from where it is
SamplesLeft ==
  CASE pc \in {"L68", "L69", "L70", "L71", "L72", "L74", "L75", "L76", "L77",
               "L79"} -> 125 + 15
    [] pc \in {"L130", "L131", "L133"} ->
         125 + (IF forced THEN 15 ELSE 1 + 125)
    [] pc = "L134" -> (timeout - i) + (IF forced THEN 15 ELSE 1 + 125)
    [] pc \in {"L133_next", "L138"} ->
         (timeout - 1 - i) + (IF forced THEN 15 ELSE 1 + 125)
    [] pc = "L140" -> IF forced THEN 15 ELSE 1 + 125
    [] pc \in {"L141", "L142", "L143", "L144", "L145", "L146"} -> 15
    [] pc = "L147" -> 1 + 125
    [] pc \in {"L148", "L149", "L150", "L151", "L152", "L153"} -> 125
    [] pc = "L155" -> timeout
    [] pc = "L156" -> timeout - i
    [] pc \in {"L155_next", "L160"} -> timeout - 1 - i
    [] pc = "L172" -> 1 + 20
    [] pc \in {"L173", "L174", "L175", "L176", "L177", "L179"} -> 20
    [] pc = "L180" -> 20 - i
    [] pc \in {"L179_next", "L184"} -> 20 - 1 - i
    [] OTHER -> 0

\* a bound on the statements the running call can still execute
StepsLeft ==
  CASE pc = "idle" -> 0
    [] pc \in {"L162", "L163", "L186", "L188"} -> 1
    [] pc = "L187" -> 2
    [] pc = "L179_next" -> 3 * (20 - 1 - i) + 3
    [] pc = "L184" -> 3 * (20 - 1 - i) + 4
    [] pc = "L180" -> 3 * (20 - 1 - i) + 5
    [] pc = "L179" -> 64
    [] pc = "L177" -> 65
    [] pc = "L176" -> 66
    [] pc = "L175" -> 67
    [] pc = "L174" -> 68
    [] pc = "L173" -> 69
    [] pc = "L172" -> 70
    [] pc = "L155_next" -> 3 * (timeout - 1 - i) + 2
    [] pc = "L160" -> 3 * (timeout - 1 - i) + 3
    [] pc = "L156" -> 3 * (timeout - 1 - i) + 4
    [] pc = "L155" -> 3 * timeout + 3
    [] pc = "L153" -> 379
    [] pc = "L152" -> 380
    [] pc = "L151" -> 381
    [] pc = "L150" -> 382
    [] pc = "L149" -> 383
    [] pc = "L148" -> 384
    [] pc = "L147" -> 385
    [] pc = "L146" -> 49
    [] pc = "L145" -> 50
    [] pc = "L144" -> 51
    [] pc = "L143" -> 52
    [] pc = "L142" -> 53
    [] pc = "L141" -> 54
    [] pc = "L140" -> 386
    [] pc = "L133_next" -> 3 * (timeout - 1 - i) + 387
    [] pc = "L138" -> 3 * (timeout - 1 - i) + 388
    [] pc = "L134" -> 3 * (timeout - 1 - i) + 389
    [] pc = "L133" -> 763
    [] pc = "L131" -> 764
    [] pc = "L130" -> 765
    [] pc = "L79" -> 766
    [] pc = "L77" -> 767
    [] pc = "L76" -> 768
    [] pc = "L75" -> 769
    [] pc = "L74" -> 770
    [] pc = "L72" -> 771
    [] pc = "L71" -> 772
    [] pc = "L70" -> 773
    [] pc = "L69" -> 774
    [] pc = "L68" -> 775
    [] OTHER -> -1

\* C19: every call ends, by return or by HardwareInitializationError,
\* whatever the status pin and the engine do: each statement executed lowers
\* a bound on the statements left, so no loop restarts a poll and no pulse is
\* repeated; and the samples a call can still take start at 1+20 for
\* startup(), 125+15 for shutdown(True) and 125+1+125 for shutdown(False) and
\* drop by one at least with every sample taken, never below zero.
C19_BoundedTermination ==
  /\ [](/\ SamplesLeft >= 0
        /\ StepsLeft >= 0
        /\ \A p \in OutPins : Pulses(p) <= 1)
  /\ [][pc' # pc =>
          IF pc = "idle"
          THEN SamplesLeft' <= (IF call' = "startup" THEN 1 + 20
                                ELSE IF call' = "init" \/ forced' THEN 125 + 15
                                ELSE 125 + 1 + 125)
          ELSE /\ StepsLeft' < StepsLeft
               /\ SamplesLeft' <= SamplesLeft
               /\ (lsamples' = lsamples + 1 \/ esample' # esample) =>
                    SamplesLeft' <= SamplesLeft - 1]_vars

C19_Witness ==
  /\ Done /\ call = "shutdown" /\ ~forced /\ result = "raised"
  /\ cphase = "exhausted" /\ esample = "ON" /\ lsamples = 125

(* ---- C20 ---- *)

\* the pins carry the modes lines 68-71 give them
PinsConfigured ==
  /\ mode["status"] = (IF cfg.status_on # 0 THEN "INPUT_PULLDOWN"
                       ELSE "INPUT_PULLUP")
  /\ mode["kill"] = "OUTPUT_PUSHPULL"
  /\ mode["power"] = "OUTPUT_PUSHPULL"
  /\ \A p \in OutPins : writes[p] # <<>>

\* the registry entries naming this module
Registered == {k \in {"gsm", "ssl", "sock0"} : default_net[k] = "m95"}

\* C20: during init the steps happen in the order pin configuration, driver
\* initialisation, registration of gsm, then tls, then socket slot 0, and
\* only then the forced shutdown; and when that shutdown raises
\* HardwareInitializationError nothing is undone: the configuration is
\* stored, the pins keep their modes, the driver stays initialised and all
\* three registry entries name this module.
C20_InitOrderNoRollback ==
  call = "init" =>
    /\ Configured
    /\ pc \in {"L68", "L69", "L70", "L71", "L72", "L74"} =>
         ~driver_init /\ Registered = {}
    /\ pc \in {"L74", "L75", "L76", "L77", "L79"} => PinsConfigured
    /\ pc = "L75" => driver_init /\ Registered = {}
    /\ pc = "L76" => driver_init /\ Registered = {"gsm"}
    /\ pc = "L77" => driver_init /\ Registered = {"gsm", "ssl"}
    /\ pc \in {"L68", "L69", "L70", "L71", "L72", "L74", "L75", "L76", "L77",
               "L79"} =>
         /\ esample = "none" /\ lsamples = 0 /\ coop = "none"
         /\ \A p \in OutPins : Pulses(p) = 0
    /\ pc \notin {"L68", "L69", "L70", "L71", "L72", "L74", "L75", "L76",
                  "L77"} =>
         /\ PinsConfigured /\ driver_init
         /\ Registered = {"gsm", "ssl", "sock0"}
    /\ pc \notin {"L68", "L69", "L70", "L71", "L72", "L74", "L75", "L76",
                  "L77", "L79", "idle"} => forced

C20_Witness ==
  /\ Done /\ call = "init" /\ result = "raised"
  /\ Configured /\ PinsConfigured /\ driver_init
  /\ Registered = {"gsm", "ssl", "sock0"}
  /\ Pulses("kill") = 1

====
